---- MODULE Spec2Model ----
(***************************************************************************)
(* Model of the savedata.bin codec of piipii (src/src/save_data.rs and     *)
(* src/src/pp.rs): the chunk cipher with its SHA-1 prefix, the PiiBox      *)
(* record codec (packed first word, split 32-bit stats, big-endian         *)
(* fields), and the load handler App::onfile of src/src/main.rs.           *)
(*                                                                         *)
(* Bytes and u16 values are naturals.  u32 and u64 values are bit vectors  *)
(* (functions from bit position, 0 = least significant, to 0 or 1), so     *)
(* that the full width is kept.  A buffer is a function from 0..len-1 to   *)
(* bytes, indexed as the Rust slice is.                                    *)
(*                                                                         *)
(* The file layout is scaled: the real file has 0x34000 / 0x10 = 13312     *)
(* chunks and the PiiBox starts at chunk 0x1360 / 0x10 = 310; the model    *)
(* keeps CHUNK_SIZE, the 20-byte digest and the 45-byte record and takes   *)
(* NumChunks chunks with the PiiBox at chunk PiiboxChunk.                  *)
(***************************************************************************)
EXTENDS Integers, Sequences, FiniteSets, TLC

----------------------------------------------------------------------------
(* Bounds of the model. *)

\* chunks in a savedata.bin (13312 in the program)
NumChunks == 9
\* chunk at which the PiiBox starts (310 in the program)
PiiboxChunk == 2
\* input buffers are Pattern(len, seed) for seed in 0..MaxSeed
MaxSeed == 1
\* longest roster handed to write_piibox
MaxRoster == 2

----------------------------------------------------------------------------
(* Program constants. *)

CHUNK_SIZE == 16
SAVEDATA_SIZE == NumChunks * CHUNK_SIZE
CHUNK_COUNT == SAVEDATA_SIZE \div CHUNK_SIZE
PIIBOX_SAVEDATA_OFFSET == PiiboxChunk * CHUNK_SIZE
SIZEOF_SDPPD == 45
\* length of a SHA-1 digest
SHA1_LEN == 20
\* usize -> u16 conversion of the roster length fails above this
U16_MAX == 65535

Min(a, b) == IF a < b THEN a ELSE b

----------------------------------------------------------------------------
(* Integer and bit-vector arithmetic. *)

\* a & b on naturals
RECURSIVE BitAnd(_, _)
BitAnd(a, b) ==
    IF a = 0 \/ b = 0 THEN 0
    ELSE (a % 2) * (b % 2) + 2 * BitAnd(a \div 2, b \div 2)

\* u8::wrapping_sub, saturating instead of wrapping
SaturatingSub(a, b) == IF a >= b THEN a - b ELSE 0

\* u8::wrapping_sub
WrappingSub(a, b) == (a + 256 - b) % 256

\* u8::wrapping_add
WrappingAdd(a, b) == (a + b) % 256

\* sum of f[k] * 2^(k - lo) for k in lo..hi
RECURSIVE BitSum(_, _, _)
BitSum(f, lo, hi) ==
    IF hi < lo THEN 0 ELSE f[lo] + 2 * BitSum(f, lo + 1, hi)

\* the w-bit vector of the big-endian byte sequence bs (w = 8 * Len(bs))
BitsOfBytes(bs) ==
    [k \in 0..(8 * Len(bs) - 1) |->
        (bs[Len(bs) - (k \div 8)] \div (2 ^ (k % 8))) % 2]

\* the n big-endian bytes of the 8n-bit vector x
BytesOfBits(x, n) ==
    [j \in 1..n |-> BitSum(x, 8 * (n - j), 8 * (n - j) + 7)]

\* u32::from(u16): zero extension
U32OfU16(h) == [k \in 0..31 |-> IF k < 16 THEN (h \div (2 ^ k)) % 2 ELSE 0]

\* x << s on a bit vector (bits shifted out are lost)
Shl(x, s) == [k \in DOMAIN x |-> IF k >= s THEN x[k - s] ELSE 0]

\* x >> s on a bit vector
Shr(x, s) == [k \in DOMAIN x |-> IF k + s \in DOMAIN x THEN x[k + s] ELSE 0]

\* x | y on bit vectors of one width
BitOr(x, y) == [k \in DOMAIN x |-> IF x[k] = 1 \/ y[k] = 1 THEN 1 ELSE 0]

\* x as u16: the low 16 bits
AsU16(x) == BitSum(x, 0, 15)

\* the two big-endian bytes of a u16
BE16(v) == <<(v \div 256) % 256, v % 256>>

\* the u16 of two big-endian bytes
U16OfBE(bs) == bs[1] * 256 + bs[2]

----------------------------------------------------------------------------
(* pp.rs: U32, the join and split of two u16 halves. *)

\* From<(u16, u16)> for U32 with the halves swapped
U32FromPairSwapped(high, low) == BitOr(Shl(U32OfU16(low), 16), U32OfU16(high))

\* From<(u16, u16)> for U32
U32FromPair(high, low) == BitOr(Shl(U32OfU16(high), 16), U32OfU16(low))

\* From<U32> for (u16, u16)
PairFromU32(x) == <<AsU16(Shr(x, 16)), AsU16(x)>>

----------------------------------------------------------------------------
(* pp.rs: SDPiiPersonalDataPacked, the bitfield! over a u16. *)

\* BitRange::bit_range(msb, lsb) of a u16
BitRange(w, msb, lsb) == (w \div (2 ^ lsb)) % (2 ^ (msb - lsb + 1))

\* BitRangeMut::set_bit_range(msb, lsb, value): clear the range, or in the
\* value shifted to lsb and masked to the range
SetBitRange(w, msb, lsb, value) ==
    w - BitRange(w, msb, lsb) * (2 ^ lsb)
      + (value % (2 ^ (msb - lsb + 1))) * (2 ^ lsb)

mons_no(w) == BitRange(w, 15, 7)
form_no(w) == BitRange(w, 6, 2)
sex(w) == BitRange(w, 2, 0)

set_mons_no(w, v) == SetBitRange(w, 15, 7, v)
set_form_no(w, v) == SetBitRange(w, 6, 2, v)
set_sex(w, v) == SetBitRange(w, 2, 0, v)

\* SDPiiPersonalDataPacked::new: every setter, in declaration order, on 0
PackedNew(m, f, s) == set_sex(set_form_no(set_mons_no(0, m), f), s)

----------------------------------------------------------------------------
(* std::io::Cursor over a slice, and the byteorder reads and writes. *)

Length(buf) == Cardinality(DOMAIN buf)

\* Write::write_all on Cursor<&mut [u8]>: as many bytes as fit are copied,
\* the position advances by that many, and a short copy is an error
CursorWrite(cur, bytes) ==
    LET start == Min(cur.pos, Length(cur.buf))
        amt == Min(Len(bytes), Length(cur.buf) - start)
    IN  [buf |-> [j \in DOMAIN cur.buf |->
                    IF start <= j /\ j < start + amt
                    THEN bytes[j - start + 1] ELSE cur.buf[j]],
         pos |-> cur.pos + amt,
         ok |-> amt = Len(bytes)]

\* Read::read_exact on Cursor<&[u8]>: n bytes, or an error when fewer remain
CursorRead(buf, pos, n) ==
    IF pos + n <= Length(buf)
    THEN [ok |-> TRUE, bytes |-> [j \in 1..n |-> buf[pos + j - 1]], pos |-> pos + n]
    ELSE [ok |-> FALSE, bytes |-> <<>>, pos |-> pos]

----------------------------------------------------------------------------
(* pp.rs: WriteSDPiiPersonalData::write_sd_ppd. *)

\* the writes of write_sd_ppd with each 32-bit stat written contiguously
\* (high half next to low half)
SdPpdWritesContiguous(ppd) ==
    LET hp == PairFromU32(ppd.bonus_max_hp)
        ap == PairFromU32(ppd.bonus_attack_power)
        dp == PairFromU32(ppd.bonus_defence_power)
        sp == PairFromU32(ppd.bonus_speed)
    IN  << [bytes |-> BE16(PackedNew(ppd.mons_no, ppd.form_no, ppd.sex)), try |-> FALSE],
           [bytes |-> BE16(ppd.move1_id), try |-> TRUE],
           [bytes |-> BE16(ppd.move2_id), try |-> TRUE],
           [bytes |-> BE16(ppd.level), try |-> TRUE],
           [bytes |-> BE16(hp[1]), try |-> TRUE],
           [bytes |-> BE16(hp[2]), try |-> TRUE],
           [bytes |-> BE16(ap[1]), try |-> TRUE],
           [bytes |-> BE16(ap[2]), try |-> TRUE],
           [bytes |-> BE16(ppd.trait_), try |-> TRUE],
           [bytes |-> BE16(ppd.flags), try |-> TRUE],
           [bytes |-> BytesOfBits(ppd.pii_id, 4), try |-> TRUE],
           [bytes |-> BE16(dp[1]), try |-> TRUE],
           [bytes |-> BE16(dp[2]), try |-> TRUE],
           [bytes |-> BE16(sp[1]), try |-> TRUE],
           [bytes |-> BE16(sp[2]), try |-> TRUE],
           [bytes |-> BytesOfBits(ppd.time, 8), try |-> TRUE],
           [bytes |-> BytesOfBits(ppd.trainer_id, 4), try |-> TRUE],
           [bytes |-> <<0>>, try |-> FALSE] >>

\* the writes of write_sd_ppd in order: the bytes of each, and whether its
\* result is propagated with `?` (the first and the last are not)
SdPpdWrites(ppd) ==
    LET hp == PairFromU32(ppd.bonus_max_hp)
        ap == PairFromU32(ppd.bonus_attack_power)
        dp == PairFromU32(ppd.bonus_defence_power)
        sp == PairFromU32(ppd.bonus_speed)
    IN  << [bytes |-> BE16(PackedNew(ppd.mons_no, ppd.form_no, ppd.sex)), try |-> FALSE],
           [bytes |-> BE16(ppd.move1_id), try |-> TRUE],
           [bytes |-> BE16(ppd.move2_id), try |-> TRUE],
           [bytes |-> BE16(ppd.level), try |-> TRUE],
           [bytes |-> BE16(hp[2]), try |-> TRUE],
           [bytes |-> BE16(ap[2]), try |-> TRUE],
           [bytes |-> BE16(dp[2]), try |-> TRUE],
           [bytes |-> BE16(sp[2]), try |-> TRUE],
           [bytes |-> BE16(ppd.trait_), try |-> TRUE],
           [bytes |-> BE16(ppd.flags), try |-> TRUE],
           [bytes |-> BytesOfBits(ppd.pii_id, 4), try |-> TRUE],
           [bytes |-> BE16(hp[1]), try |-> TRUE],
           [bytes |-> BE16(ap[1]), try |-> TRUE],
           [bytes |-> BE16(dp[1]), try |-> TRUE],
           [bytes |-> BE16(sp[1]), try |-> TRUE],
           [bytes |-> BytesOfBits(ppd.time, 8), try |-> TRUE],
           [bytes |-> BytesOfBits(ppd.trainer_id, 4), try |-> TRUE],
           [bytes |-> <<0>>, try |-> FALSE] >>

\* the writes from the k-th on: a failed write with `?` returns Err at
\* once, a failed write without it is dropped and the next one runs
RECURSIVE WriteFrom(_, _, _)
WriteFrom(cur, writes, k) ==
    IF k > Len(writes) THEN [cur |-> cur, res |-> "Ok"]
    ELSE LET c2 == CursorWrite(cur, writes[k].bytes)
         IN  IF ~c2.ok /\ writes[k].try
             THEN [cur |-> c2, res |-> "Err"]
             ELSE WriteFrom(c2, writes, k + 1)

write_sd_ppd(cur, ppd) == WriteFrom(cur, SdPpdWrites(ppd), 1)

----------------------------------------------------------------------------
(* pp.rs: ReadSDPiiPersonalData::read_sd_ppd. *)

\* the widths of the reads of read_sd_ppd, in order
SdPpdReads == <<2, 2, 2, 2, 2, 2, 2, 2, 2, 2, 4, 2, 2, 2, 2, 8, 4, 1>>

\* the reads from the k-th on; got holds the bytes of the reads before it
RECURSIVE ReadFrom(_, _, _, _)
ReadFrom(buf, pos, k, got) ==
    IF k > Len(SdPpdReads) THEN [res |-> "Ok", got |-> got, pos |-> pos]
    ELSE LET r == CursorRead(buf, pos, SdPpdReads[k])
         IN  IF ~r.ok THEN [res |-> "Err", got |-> got, pos |-> pos]
             ELSE ReadFrom(buf, r.pos, k + 1, Append(got, r.bytes))

\* the record of the eighteen values read
SdPpdOf(got) ==
    LET packed == U16OfBE(got[1])
    IN  [mons_no |-> mons_no(packed),
         form_no |-> form_no(packed),
         sex |-> sex(packed),
         move1_id |-> U16OfBE(got[2]),
         move2_id |-> U16OfBE(got[3]),
         level |-> U16OfBE(got[4]),
         bonus_max_hp |-> U32FromPair(U16OfBE(got[12]), U16OfBE(got[5])),
         bonus_attack_power |-> U32FromPair(U16OfBE(got[13]), U16OfBE(got[6])),
         bonus_defence_power |-> U32FromPair(U16OfBE(got[14]), U16OfBE(got[7])),
         bonus_speed |-> U32FromPair(U16OfBE(got[15]), U16OfBE(got[8])),
         trait_ |-> U16OfBE(got[9]),
         flags |-> U16OfBE(got[10]),
         pii_id |-> BitsOfBytes(got[11]),
         time |-> BitsOfBytes(got[16]),
         trainer_id |-> BitsOfBytes(got[17])]

\* read_sd_ppd without the assertion on the last byte
read_sd_ppd_unchecked(buf, pos) ==
    LET r == ReadFrom(buf, pos, 1, <<>>)
    IN  IF r.res = "Err" THEN [res |-> "Err", pos |-> r.pos]
        ELSE [res |-> "Ok", ppd |-> SdPpdOf(r.got), pos |-> r.pos]

\* read_sd_ppd: Err when a read fails, a panic when the last byte is not 0
read_sd_ppd(buf, pos) ==
    LET r == ReadFrom(buf, pos, 1, <<>>)
    IN  IF r.res = "Err" THEN [res |-> "Err", pos |-> r.pos]
        ELSE IF r.got[18][1] # 0 THEN [res |-> "Panic", pos |-> r.pos]
        ELSE [res |-> "Ok", ppd |-> SdPpdOf(r.got), pos |-> r.pos]

----------------------------------------------------------------------------
(* save_data.rs: extract_piibox and write_piibox. *)

\* the records from the k-th of n on; the unwrap panics on Err
RECURSIVE ExtractFrom(_, _, _, _, _)
ExtractFrom(buf, pos, k, n, acc) ==
    IF k > n THEN [panic |-> FALSE, pii_box |-> acc]
    ELSE LET r == read_sd_ppd(buf, pos)
         IN  IF r.res # "Ok" THEN [panic |-> TRUE, pii_box |-> <<>>]
             ELSE ExtractFrom(buf, r.pos, k + 1, n, Append(acc, r.ppd))

extract_piibox(buf) ==
    LET r == CursorRead(buf, PIIBOX_SAVEDATA_OFFSET, 2)
    IN  IF ~r.ok THEN [panic |-> TRUE, pii_box |-> <<>>]
        ELSE ExtractFrom(buf, r.pos, 1, U16OfBE(r.bytes), <<>>)

\* the loop over the roster: the result of write_sd_ppd is dropped; lost
\* counts the records whose write returned Err
RECURSIVE WriteRosterFrom(_, _, _, _)
WriteRosterFrom(cur, roster, k, lost) ==
    IF k > Len(roster) THEN [cur |-> cur, lost |-> lost]
    ELSE LET w == write_sd_ppd(cur, roster[k])
         IN  WriteRosterFrom(w.cur, roster, k + 1,
                             IF w.res = "Err" THEN lost + 1 ELSE lost)

\* write_piibox without the set_position: the cursor starts at 0
write_piibox_unpositioned(buf, roster) ==
    IF Len(roster) > U16_MAX THEN [panic |-> TRUE, buf |-> buf]
    ELSE LET c0 == [buf |-> buf, pos |-> 0]
             c1 == CursorWrite(c0, BE16(Len(roster)))
             w == WriteRosterFrom([buf |-> c1.buf, pos |-> c1.pos], roster, 1, 0)
         IN  [panic |-> FALSE, buf |-> w.cur.buf]

\* write_piibox: the length conversion panics above U16_MAX before anything
\* is written; the result of the length write is dropped
write_piibox(buf, roster) ==
    IF Len(roster) > U16_MAX THEN [panic |-> TRUE, buf |-> buf]
    ELSE LET c0 == [buf |-> buf, pos |-> PIIBOX_SAVEDATA_OFFSET]
             c1 == CursorWrite(c0, BE16(Len(roster)))
             w == WriteRosterFrom([buf |-> c1.buf, pos |-> c1.pos], roster, 1, 0)
         IN  [panic |-> FALSE, buf |-> w.cur.buf]

----------------------------------------------------------------------------
(* save_data.rs: the SHA-1 prefix and the chunk cipher. *)

\* sum of buf[t] * ((((t + 1) * j) % 251) + 1) for t in lo..hi
RECURSIVE WeightedSum(_, _, _, _)
WeightedSum(buf, j, lo, hi) ==
    IF hi < lo THEN 0
    ELSE IF lo = hi THEN buf[lo] * ((((lo + 1) * j) % 251) + 1)
    ELSE LET mid == (lo + hi) \div 2
         IN  WeightedSum(buf, j, lo, mid) + WeightedSum(buf, j, mid + 1, hi)

\* Sha1::new(); update(&savedata[20..]); finalize(): the digest of bytes
\* [20, end).  SHA-1 itself is a library; it is modelled as a fixed function
\* from the bytes and their count to 20 bytes that depends on every byte
Sha1(buf) ==
    [j \in 1..SHA1_LEN |->
        (WeightedSum(buf, j, SHA1_LEN, Length(buf) - 1) + Length(buf) + j) % 256]

\* savedata[..20]
Prefix(buf) == [j \in 1..SHA1_LEN |-> buf[j - 1]]

\* the digest copied over the first chunk only
WithPrefix16(buf, digest) ==
    [j \in DOMAIN buf |-> IF j < CHUNK_SIZE THEN digest[j + 1] ELSE buf[j]]

\* savedata[..20].copy_from_slice(&result)
WithPrefix(buf, digest) ==
    [j \in DOMAIN buf |-> IF j < SHA1_LEN THEN digest[j + 1] ELSE buf[j]]

\* the offset read by byte i of chunk chunk_idx, without the - CHUNK_SIZE
OffsetInOwnChunk(k, n) == k * CHUNK_SIZE + BitAnd(k + n, 15)

\* offset = chunk_pos + ((chunk_idx + i) & 0xF) - CHUNK_SIZE
Offset(k, n) == k * CHUNK_SIZE + BitAnd(k + n, 15) - CHUNK_SIZE

\* index = chunk_pos + i
Index(k, n) == k * CHUNK_SIZE + n

----------------------------------------------------------------------------
(* The state. *)

VARIABLES
    savedata,    \* the buffer the operations work on
    pii_box,     \* the roster held by the caller
    script,      \* the calls the caller has still to make, the first running
    done,        \* the calls that have returned, in order
    pc,          \* "idle", or the position inside the running call
    chunk_idx,   \* the cipher's outer loop variable
    i,           \* the cipher's inner loop variable
    failure,     \* "none", or the panic that ended the run
    entry,       \* the buffer as it was at the entry of each call so far
    roster_in,   \* the roster passed to the last write_piibox
    arg,         \* the argument of a call of a pure function
    ret          \* its result

vars == <<savedata, pii_box, script, done, pc, chunk_idx, i, failure, entry,
          roster_in, arg, ret>>

calling(op) == pc = "idle" /\ script # <<>> /\ Head(script) = op

\* the running call returns to the caller
Return ==
    /\ pc' = "idle"
    /\ done' = Append(done, Head(script))
    /\ script' = Tail(script)
    /\ failure' = failure

\* the running call panics
Panic(what) ==
    /\ pc' = "panicked"
    /\ failure' = what
    /\ UNCHANGED <<script, done>>

----------------------------------------------------------------------------
(* save_data.rs: decrypt_savedata, one loop iteration per step. *)

\* (1..CHUNK_COUNT).rev(): the chunk after chunk k
DecryptNextChunk(k) == k - 1

\* (1..CHUNK_COUNT): the chunk after chunk k
EncryptNextChunk(k) == k + 1

DecryptBegin ==
    /\ calling("decrypt_savedata")
    /\ entry' = Append(entry, savedata)
    /\ IF CHUNK_COUNT - 1 >= 1
       THEN pc' = "decrypt_loop" /\ chunk_idx' = CHUNK_COUNT - 1 /\ i' = 0
       ELSE pc' = "decrypt_verify" /\ UNCHANGED <<chunk_idx, i>>
    /\ UNCHANGED <<savedata, pii_box, script, done, failure, roster_in, arg, ret>>

DecryptByte ==
    /\ pc = "decrypt_loop"
    /\ LET index == Index(chunk_idx, i)
           offset == Offset(chunk_idx, i)
       IN  IF index \notin DOMAIN savedata \/ offset \notin DOMAIN savedata
           THEN /\ Panic("index out of bounds")
                /\ UNCHANGED <<savedata, chunk_idx, i>>
           ELSE /\ savedata' = [savedata EXCEPT
                                   ![index] = WrappingSub(savedata[index], savedata[offset])]
                /\ UNCHANGED <<script, done, failure>>
                /\ IF i + 1 < CHUNK_SIZE
                   THEN i' = i + 1 /\ UNCHANGED <<pc, chunk_idx>>
                   ELSE IF DecryptNextChunk(chunk_idx) >= 1
                        THEN /\ chunk_idx' = DecryptNextChunk(chunk_idx)
                             /\ i' = 0
                             /\ UNCHANGED pc
                        ELSE pc' = "decrypt_verify" /\ UNCHANGED <<chunk_idx, i>>
    /\ UNCHANGED <<pii_box, entry, roster_in, arg, ret>>

DecryptVerify ==
    /\ pc = "decrypt_verify"
    /\ IF Length(savedata) < SHA1_LEN THEN Panic("slice out of bounds")
       ELSE IF Sha1(savedata) # Prefix(savedata) THEN Panic("checksum mismatch")
       ELSE Return
    /\ UNCHANGED <<savedata, pii_box, chunk_idx, i, entry, roster_in, arg, ret>>

----------------------------------------------------------------------------
(* save_data.rs: encrypt_savedata, the digest and then one loop iteration *)
(* per step.                                                               *)

EncryptHash ==
    /\ calling("encrypt_savedata")
    /\ entry' = Append(entry, savedata)
    /\ IF Length(savedata) < SHA1_LEN
       THEN /\ Panic("slice out of bounds")
            /\ UNCHANGED <<savedata, chunk_idx, i>>
       ELSE /\ savedata' = WithPrefix(savedata, Sha1(savedata))
            /\ IF 1 < CHUNK_COUNT
               THEN /\ pc' = "encrypt_loop" /\ chunk_idx' = 1 /\ i' = 0
                    /\ UNCHANGED <<script, done, failure>>
               ELSE Return /\ UNCHANGED <<chunk_idx, i>>
    /\ UNCHANGED <<pii_box, roster_in, arg, ret>>

EncryptByte ==
    /\ pc = "encrypt_loop"
    /\ LET index == Index(chunk_idx, i)
           offset == Offset(chunk_idx, i)
       IN  IF index \notin DOMAIN savedata \/ offset \notin DOMAIN savedata
           THEN /\ Panic("index out of bounds")
                /\ UNCHANGED <<savedata, chunk_idx, i>>
           ELSE /\ savedata' = [savedata EXCEPT
                                   ![index] = WrappingAdd(savedata[index], savedata[offset])]
                /\ IF i + 1 < CHUNK_SIZE
                   THEN /\ i' = i + 1
                        /\ UNCHANGED <<pc, chunk_idx, script, done, failure>>
                   ELSE IF EncryptNextChunk(chunk_idx) < CHUNK_COUNT
                        THEN /\ chunk_idx' = EncryptNextChunk(chunk_idx)
                             /\ i' = 0
                             /\ UNCHANGED <<pc, script, done, failure>>
                        ELSE Return /\ UNCHANGED <<chunk_idx, i>>
    /\ UNCHANGED <<pii_box, entry, roster_in, arg, ret>>

----------------------------------------------------------------------------
(* The calls of the record codec, and main.rs: App::onfile. *)

ExtractPiibox ==
    /\ calling("extract_piibox")
    /\ entry' = Append(entry, savedata)
    /\ LET r == extract_piibox(savedata)
       IN  IF r.panic
           THEN Panic("extract panicked") /\ UNCHANGED pii_box
           ELSE Return /\ pii_box' = r.pii_box
    /\ UNCHANGED <<savedata, chunk_idx, i, roster_in, arg, ret>>

WritePiibox ==
    /\ calling("write_piibox")
    /\ entry' = Append(entry, savedata)
    /\ roster_in' = pii_box
    /\ LET w == write_piibox(savedata, pii_box)
       IN  IF w.panic
           THEN Panic("length does not fit u16") /\ UNCHANGED savedata
           ELSE Return /\ savedata' = w.buf
    /\ UNCHANGED <<pii_box, chunk_idx, i, arg, ret>>

\* onfile: the size assertion, then decrypt_savedata and extract_piibox
OnFile ==
    /\ calling("onfile")
    /\ IF Length(savedata) # SAVEDATA_SIZE
       THEN Panic("size mismatch")
       ELSE /\ script' = <<"decrypt_savedata", "extract_piibox">> \o Tail(script)
            /\ UNCHANGED <<pc, done, failure>>
    /\ UNCHANGED <<savedata, pii_box, chunk_idx, i, entry, roster_in, arg, ret>>

----------------------------------------------------------------------------
(* The inputs. *)

\* a buffer of len bytes whose contents vary with seed
Pattern(len, seed) ==
    [j \in 0..(len - 1) |-> ((j + seed) * (2 * seed + 3) + seed * j * j) % 256]

\* buf with its first 20 bytes set to the digest of the rest
Sealed(buf) == WithPrefix(buf, Sha1(buf))

\* where record k of the PiiBox starts
RecordAt(k) == PIIBOX_SAVEDATA_OFFSET + 2 + SIZEOF_SDPPD * k

\* buf with the count n at the PiiBox offset and the last byte of each
\* record in zeros set to 0
WithBox(buf, n, zeros) ==
    [j \in DOMAIN buf |->
        IF j = PIIBOX_SAVEDATA_OFFSET THEN (n \div 256) % 256
        ELSE IF j = PIIBOX_SAVEDATA_OFFSET + 1 THEN n % 256
        ELSE IF \E k \in zeros : j = RecordAt(k) + SIZEOF_SDPPD - 1 THEN 0
        ELSE buf[j]]

Seeds == 0..MaxSeed

\* the counts and zeroed records of the boxed input buffers
Boxes == { <<0, {}>>, <<1, {}>>, <<1, {0}>>, <<2, {0}>>, <<2, {1}>>,
           <<2, {0, 1}>>, <<3, {0, 1}>>, <<MaxRoster + 1, 0..MaxRoster>> }

CipherLengths == { SAVEDATA_SIZE, SAVEDATA_SIZE - 1, SAVEDATA_SIZE + 1,
                   SAVEDATA_SIZE - CHUNK_SIZE, SHA1_LEN - 1 }

CodecLengths == { SAVEDATA_SIZE, PIIBOX_SAVEDATA_OFFSET - 3,
                  PIIBOX_SAVEDATA_OFFSET, PIIBOX_SAVEDATA_OFFSET + 1,
                  RecordAt(0), RecordAt(1) - 1, RecordAt(1), RecordAt(1) + 1,
                  RecordAt(2) }

PlainBuffers(lengths) == { Pattern(len, seed) : len \in lengths, seed \in Seeds }

BoxedBuffers(lengths) ==
    { WithBox(b, x[1], x[2]) : b \in PlainBuffers(lengths), x \in Boxes }

\* the buffers handed to the cipher: any contents, with and without a valid
\* digest in front
CipherBuffers ==
    LET raw == PlainBuffers(CipherLengths) \cup BoxedBuffers({SAVEDATA_SIZE})
    IN  raw \cup { Sealed(b) : b \in { x \in raw : Length(x) >= SHA1_LEN } }

CodecBuffers == PlainBuffers(CodecLengths) \cup BoxedBuffers(CodecLengths)

\* u32 and u64 values, from their big-endian bytes
Hex(bs) == BitsOfBytes(bs)

\* the records of the input rosters: wide values in every field; RecB has
\* form_no odd and sex < 4, RecC has form_no odd and sex >= 4
RecA == [mons_no |-> 25, form_no |-> 0, sex |-> 1,
         move1_id |-> 258, move2_id |-> 0, level |-> 100,
         bonus_max_hp |-> Hex(<<170, 170, 187, 187>>),
         bonus_attack_power |-> Hex(<<0, 1, 0, 0>>),
         bonus_defence_power |-> Hex(<<0, 0, 255, 255>>),
         bonus_speed |-> Hex(<<255, 255, 255, 255>>),
         trait_ |-> 3, flags |-> 32769,
         pii_id |-> Hex(<<222, 173, 190, 239>>),
         time |-> Hex(<<1, 2, 3, 4, 5, 6, 7, 8>>),
         trainer_id |-> Hex(<<0, 0, 0, 1>>)]

RecB == [mons_no |-> 493, form_no |-> 1, sex |-> 0,
         move1_id |-> 65535, move2_id |-> 1, level |-> 1,
         bonus_max_hp |-> Hex(<<0, 0, 0, 0>>),
         bonus_attack_power |-> Hex(<<128, 0, 0, 1>>),
         bonus_defence_power |-> Hex(<<18, 52, 86, 120>>),
         bonus_speed |-> Hex(<<0, 0, 0, 7>>),
         trait_ |-> 0, flags |-> 0,
         pii_id |-> Hex(<<0, 0, 0, 0>>),
         time |-> Hex(<<255, 254, 253, 252, 251, 250, 249, 248>>),
         trainer_id |-> Hex(<<255, 255, 255, 255>>)]

RecC == [mons_no |-> 511, form_no |-> 3, sex |-> 5,
         move1_id |-> 7, move2_id |-> 300, level |-> 65535,
         bonus_max_hp |-> Hex(<<0, 255, 255, 0>>),
         bonus_attack_power |-> Hex(<<255, 0, 0, 255>>),
         bonus_defence_power |-> Hex(<<1, 0, 0, 0>>),
         bonus_speed |-> Hex(<<0, 0, 1, 0>>),
         trait_ |-> 65535, flags |-> 4660,
         pii_id |-> Hex(<<1, 2, 3, 4>>),
         time |-> Hex(<<0, 0, 0, 0, 0, 0, 0, 0>>),
         trainer_id |-> Hex(<<128, 0, 0, 0>>)]

Records == {RecA, RecB, RecC}

Rosters == UNION { [1..n -> Records] : n \in 0..MaxRoster }

\* the callers: a file is written and then read back; a file is read; a
\* written file is loaded by onfile; a written file goes through the test
\* parse_savedata; a roster is written and read back; a roster is read
CipherScripts ==
    { <<"encrypt_savedata", "decrypt_savedata">>,
      <<"decrypt_savedata">>,
      <<"encrypt_savedata", "onfile">>,
      <<"encrypt_savedata", "decrypt_savedata", "extract_piibox",
        "write_piibox", "encrypt_savedata">> }

----------------------------------------------------------------------------
(* The specification. *)

Start(buf, roster, calls) ==
    /\ savedata = buf
    /\ pii_box = roster
    /\ script = calls
    /\ done = <<>>
    /\ pc = "idle"
    /\ chunk_idx = 0
    /\ i = 0
    /\ failure = "none"
    /\ entry = <<>>
    /\ roster_in = <<>>
    /\ arg = <<>>
    /\ ret = <<>>

Init ==
    \/ \E buf \in CipherBuffers, calls \in CipherScripts :
           Start(buf, <<>>, calls)
    \/ \E buf \in CodecBuffers, roster \in Rosters :
           Start(buf, roster, <<"write_piibox", "extract_piibox">>)
    \/ \E buf \in CodecBuffers :
           Start(buf, <<>>, <<"extract_piibox">>)

Next ==
    \/ OnFile
    \/ DecryptBegin
    \/ DecryptByte
    \/ DecryptVerify
    \/ EncryptHash
    \/ EncryptByte
    \/ ExtractPiibox
    \/ WritePiibox

Spec == Init /\ [][Next]_vars

----------------------------------------------------------------------------
(* The pure functions of pp.rs on their own: the U32 conversions and the   *)
(* packed first word.  arg is the argument of the first call, ret the      *)
(* result of the last.                                                     *)

ByteValues == {0, 1, 127, 128, 170, 187, 255}
U16Values == {0, 1, 255, 256, 32767, 32768, 43690, 48059, 65535}
SpeciesValues == {0, 1, 127, 128, 255, 256, 493, 511}

StartPure(a, calls) ==
    /\ savedata = <<>>
    /\ pii_box = <<>>
    /\ script = calls
    /\ done = <<>>
    /\ pc = "idle"
    /\ chunk_idx = 0
    /\ i = 0
    /\ failure = "none"
    /\ entry = <<>>
    /\ roster_in = <<>>
    /\ arg = a
    /\ ret = <<>>

PureReturn(value) ==
    /\ ret' = value
    /\ done' = Append(done, Head(script))
    /\ script' = Tail(script)
    /\ UNCHANGED <<savedata, pii_box, pc, chunk_idx, i, failure, entry, roster_in, arg>>

\* <(u16, u16)>::from(U32(v)), v given by its four big-endian bytes
SplitOfBytes == calling("split") /\ done = <<>> /\ PureReturn(PairFromU32(BitsOfBytes(arg)))

\* <(u16, u16)>::from(x), x the U32 the join before it returned
SplitOfJoined == calling("split") /\ done # <<>> /\ PureReturn(PairFromU32(ret))

\* U32::from((h, l)) of a pair of u16 values
JoinOfPair == calling("join") /\ done = <<>> /\ PureReturn(U32FromPair(arg[1], arg[2]))

\* U32::from(p), p the pair the split before it returned
JoinOfSplit == calling("join") /\ done # <<>> /\ PureReturn(U32FromPair(ret[1], ret[2]))

InitU32 ==
    \/ \E a \in [1..4 -> ByteValues] : StartPure(a, <<"split", "join">>)
    \/ \E a \in U16Values \X U16Values : StartPure(a, <<"join", "split">>)

NextU32 == SplitOfBytes \/ SplitOfJoined \/ JoinOfPair \/ JoinOfSplit

SpecU32 == InitU32 /\ [][NextU32]_vars

\* SDPiiPersonalDataPacked::new(mons_no, form_no, sex)
PackedNewCall ==
    calling("new") /\ PureReturn(PackedNew(arg[1], arg[2], arg[3]))

\* the three getters on the word new returned
PackedGet ==
    calling("get") /\ PureReturn(<<mons_no(ret), form_no(ret), sex(ret)>>)

InitPacked ==
    \E a \in SpeciesValues \X (0..31) \X (0..7) : StartPure(a, <<"new", "get">>)

NextPacked == PackedNewCall \/ PackedGet

SpecPacked == InitPacked /\ [][NextPacked]_vars

----------------------------------------------------------------------------
(* Vocabulary of the properties. *)

\* every call of the caller, those returned and those still to make
Program == done \o script

\* the buffer as the last call entered found it
LastEntry == entry[Len(entry)]

\* buf has exactly the size of a savedata.bin
RightSize(buf) == Length(buf) = SAVEDATA_SIZE

\* bytes [0, 20) of buf are the digest of its bytes [20, end)
ValidChecksum(buf) == Length(buf) >= SHA1_LEN /\ Sha1(buf) = Prefix(buf)

\* the count and the records of roster fit between the PiiBox offset and
\* the end of buf
Fits(buf, roster) == RecordAt(Len(roster)) <= Length(buf)

\* the count at the PiiBox offset of buf
BoxCount(buf) == buf[PIIBOX_SAVEDATA_OFFSET] * 256 + buf[PIIBOX_SAVEDATA_OFFSET + 1]

\* buf holds a count, and one of the records counted ends in a non-zero byte
BadTrailingByte(buf) ==
    /\ PIIBOX_SAVEDATA_OFFSET + 2 <= Length(buf)
    /\ \E k \in 0..(Min(BoxCount(buf), Length(buf)) - 1) :
          /\ RecordAt(k) + SIZEOF_SDPPD <= Length(buf)
          /\ buf[RecordAt(k) + SIZEOF_SDPPD - 1] # 0

\* the bytes of chunk k that lie in buf
ChunkOf(buf, k) == { c \in DOMAIN buf : c \div CHUNK_SIZE = k }

----------------------------------------------------------------------------
(* C1..C4 *)

\* C1: a buffer P of SAVEDATA_SIZE bytes whose first 20 bytes are the digest
\* of the rest goes through encrypt_savedata and then decrypt_savedata
\* without a panic, and is byte for byte P again when decrypt_savedata
\* returns.
C1_CipherRoundTrip ==
    ( /\ Len(Program) >= 2
      /\ Program[1] = "encrypt_savedata"
      /\ Program[2] = "decrypt_savedata"
      /\ entry # <<>>
      /\ RightSize(entry[1])
      /\ \/ Len(done) < 2 /\ failure # "none"
         \/ Len(done) = 2 /\ pc = "idle"
      /\ ValidChecksum(entry[1]) )
    => /\ failure = "none"
       /\ savedata = entry[1]

\* C1 witness: such a P has been encrypted to something else and decrypted
\* back to P.
C1_Witness ==
    /\ done = <<"encrypt_savedata", "decrypt_savedata">>
    /\ pc = "idle"
    /\ RightSize(entry[1])
    /\ ValidChecksum(entry[1])
    /\ entry[2] # entry[1]
    /\ savedata = entry[1]

\* C2 as claimed: for every roster R that fits and every buffer,
\* write_piibox and then extract_piibox do not panic and extract_piibox
\* returns R, field for field.
C2_RecordRoundTrip ==
    ( /\ Program = <<"write_piibox", "extract_piibox">>
      /\ entry # <<>>
      /\ Fits(entry[1], roster_in) )
    => /\ failure = "none"
       /\ Len(done) = 2 => pii_box = roster_in

\* C3 as claimed: after encrypt_savedata on a buffer of SAVEDATA_SIZE bytes,
\* the digest of bytes [20, end) of the result equals bytes [0, 20) of the
\* result.
C3_ChecksumOfResult ==
    ( /\ done # <<>>
      /\ done[Len(done)] = "encrypt_savedata"
      /\ pc = "idle"
      /\ Len(entry) = Len(done)
      /\ RightSize(LastEntry) )
    => Sha1(savedata) = Prefix(savedata)

\* C3 amended: on a buffer P of SAVEDATA_SIZE bytes, encrypt_savedata stores
\* in bytes [0, 20) the digest of bytes [20, end) of the plaintext P, before
\* its chunk pass; when it returns, bytes [0, 16) of the result still equal
\* the first 16 bytes of that digest (bytes [16, 20) are enciphered with
\* chunk 1).
C3_ChecksumOfPlaintext ==
    ( /\ Program # <<>>
      /\ Len(entry) >= 1
      /\ Len(entry) <= Len(Program)
      /\ Program[Len(entry)] = "encrypt_savedata"
      /\ RightSize(LastEntry) )
    => /\ failure = "none"
       /\ (pc = "encrypt_loop" /\ chunk_idx = 1 /\ i = 0)
             => /\ Prefix(savedata) = Sha1(LastEntry)
                /\ \A c \in DOMAIN savedata :
                      c >= SHA1_LEN => savedata[c] = LastEntry[c]
       /\ (pc = "idle" /\ Len(done) = Len(entry))
             => \A c \in 0..(CHUNK_SIZE - 1) : savedata[c] = Sha1(LastEntry)[c + 1]

\* C3 witness: encrypt_savedata has returned on a buffer of SAVEDATA_SIZE
\* bytes, chunk 0 holds the digest of the plaintext, and the digest of the
\* result is another.
C3_Witness ==
    /\ done = <<"encrypt_savedata">>
    /\ pc = "idle"
    /\ RightSize(entry[1])
    /\ \A c \in 0..(CHUNK_SIZE - 1) : savedata[c] = Sha1(entry[1])[c + 1]
    /\ Sha1(savedata) # Prefix(savedata)

\* C4 as claimed: for species in [0, 511], form in [0, 31] and sex in
\* [0, 7], the getters on SDPiiPersonalDataPacked::new(species, form, sex)
\* return the triple given.
C4_PackedRoundTrip ==
    done = <<"new", "get">> => ret = arg

----------------------------------------------------------------------------
(* C5..C10 *)

\* C5 as claimed: decrypt_savedata and encrypt_savedata, called on a buffer
\* that is not exactly SAVEDATA_SIZE bytes long, fail before any byte of it
\* is transformed: the buffer stays as the call found it and the call does
\* not return normally.
C5_SizeCheckedAtEntry ==
    ( /\ entry # <<>>
      /\ Len(entry) <= Len(Program)
      /\ Program[Len(entry)] \in {"decrypt_savedata", "encrypt_savedata"}
      /\ ~RightSize(LastEntry) )
    => /\ savedata = LastEntry
       /\ Len(done) < Len(entry)

\* C6 as claimed: write_piibox, called with a roster of at most 65535
\* records whose count and records do not fit between the PiiBox offset and
\* the end of the buffer, does not return as if it had succeeded.
C6_WriteFailureSurfaced ==
    ( /\ done # <<>>
      /\ done[Len(done)] = "write_piibox"
      /\ pc = "idle"
      /\ Len(entry) = Len(done)
      /\ Len(roster_in) <= U16_MAX )
    => Fits(LastEntry, roster_in)

\* C7: when the count at the PiiBox offset is N and one of the first N
\* records ends in a non-zero byte, extract_piibox panics: it does not
\* return and the caller gets no roster.
C7_FixedByteValidated ==
    [][ (calling("extract_piibox") /\ BadTrailingByte(savedata))
        => /\ pc' = "panicked"
           /\ failure' = "extract panicked"
           /\ done' = done
           /\ pii_box' = pii_box ]_vars

\* C7 witness: extract_piibox has panicked on a buffer that holds every
\* record of its count, the first of which ends in a non-zero byte.
C7_Witness ==
    /\ pc = "panicked"
    /\ script # <<>>
    /\ Head(script) = "extract_piibox"
    /\ Len(entry) = Len(done) + 1
    /\ PIIBOX_SAVEDATA_OFFSET + 2 <= Length(LastEntry)
    /\ BoxCount(LastEntry) \in 1..2
    /\ RecordAt(BoxCount(LastEntry)) <= Length(LastEntry)
    /\ LastEntry[RecordAt(0) + SIZEOF_SDPPD - 1] # 0

\* C8: for a u32 v, the split is (v >> 16, v & 0xFFFF), its two big-endian
\* halves, and the join of the split is v; for u16 h and l, the join is
\* (h << 16) | l, the four bytes of h and l in a row, and the split of the
\* join is (h, l).
C8_SplitJoin ==
    /\ done = <<"split">> => ret = <<arg[1] * 256 + arg[2], arg[3] * 256 + arg[4]>>
    /\ done = <<"split", "join">> => ret = BitsOfBytes(arg)
    /\ done = <<"join">> => ret = BitsOfBytes(BE16(arg[1]) \o BE16(arg[2]))
    /\ done = <<"join", "split">> => ret = arg

\* C8 witness: 0xaaaabbbb has been split into (0xaaaa, 0xbbbb) and joined
\* back.
C8_Witness ==
    /\ done = <<"split", "join">>
    /\ arg = <<170, 170, 187, 187>>
    /\ ret = BitsOfBytes(arg)
    /\ PairFromU32(ret) = <<43690, 48059>>

ParseSavedata ==
    <<"encrypt_savedata", "decrypt_savedata", "extract_piibox",
      "write_piibox", "encrypt_savedata">>

\* C9: on a buffer C of SAVEDATA_SIZE bytes on which decrypt_savedata and
\* extract_piibox have returned, write_piibox of the extracted roster and
\* encrypt_savedata return too; write_piibox leaves the buffer as
\* extract_piibox found it, and when encrypt_savedata returns the buffer is
\* byte for byte C.
C9_LoadSaveIdentity ==
    ( /\ Program = ParseSavedata
      /\ Len(done) >= 3
      /\ RightSize(entry[2]) )
    => /\ failure = "none"
       /\ Len(entry) >= 4 => roster_in = pii_box
       /\ Len(entry) >= 5 => entry[5] = entry[3]
       /\ Len(done) = 5 => savedata = entry[2]

\* C9 witness: the four calls have returned on a buffer whose roster has
\* two records, one with the shared bit 2 of the packed word set, and the
\* buffer is the encrypted C again.
C9_Witness ==
    /\ done = ParseSavedata
    /\ RightSize(entry[2])
    /\ entry[3] # entry[2]
    /\ Len(pii_box) = 2
    /\ \E k \in 1..2 : pii_box[k].sex >= 4 /\ pii_box[k].form_no % 2 = 1
    /\ savedata = entry[2]

\* one step of the cipher loops, as C10 describes it
C10_Step ==
    LET k == chunk_idx
        index == Index(k, i)
        offset == Offset(k, i)
    IN  /\ (calling("decrypt_savedata") /\ pc' = "decrypt_loop")
            => chunk_idx' = CHUNK_COUNT - 1 /\ i' = 0
        /\ pc = "decrypt_loop"
            => /\ k \in 1..(CHUNK_COUNT - 1)
               /\ offset \div CHUNK_SIZE = k - 1
               /\ \A c \in ChunkOf(savedata, k - 1) : savedata[c] = LastEntry[c]
               /\ \A c \in DOMAIN savedata : c # index => savedata'[c] = savedata[c]
               /\ \A c \in ChunkOf(savedata, 0) : savedata'[c] = savedata[c]
               /\ pc' = "decrypt_loop"
                    => \/ chunk_idx' = k /\ i' = i + 1
                       \/ i = CHUNK_SIZE - 1 /\ chunk_idx' = k - 1 /\ i' = 0
               /\ pc' = "decrypt_verify" => k = 1 /\ i = CHUNK_SIZE - 1
        /\ (calling("encrypt_savedata") /\ pc' = "encrypt_loop")
            => chunk_idx' = 1 /\ i' = 0
        /\ pc = "encrypt_loop"
            => /\ k \in 1..(CHUNK_COUNT - 1)
               /\ offset \div CHUNK_SIZE = k - 1
               /\ offset \notin { Index(k, t) : t \in 0..(i - 1) }
               /\ \A c \in DOMAIN savedata : c # index => savedata'[c] = savedata[c]
               /\ \A c \in ChunkOf(savedata, 0) : savedata'[c] = savedata[c]
               /\ pc' = "encrypt_loop"
                    => \/ chunk_idx' = k /\ i' = i + 1
                       \/ i = CHUNK_SIZE - 1 /\ chunk_idx' = k + 1 /\ i' = 0
               /\ pc' = "idle" => k = CHUNK_COUNT - 1 /\ i = CHUNK_SIZE - 1

\* C10: decrypt_savedata transforms the chunks in descending order from
\* CHUNK_COUNT - 1 to 1; the byte each step reads lies in chunk k - 1, which
\* still holds the values the call found there.  encrypt_savedata
\* transforms them in ascending order from 1 to CHUNK_COUNT - 1; the byte
\* each step reads lies in chunk k - 1 and is none of the bytes written in
\* chunk k's pass.  No step of either loop writes chunk 0.
C10_ChunkOrder == [][C10_Step]_vars

\* C10 witness: a buffer of SAVEDATA_SIZE bytes has gone through the whole
\* ascending pass and then the whole descending pass.
C10_Witness ==
    /\ done = <<"encrypt_savedata">>
    /\ pc = "decrypt_verify"
    /\ RightSize(savedata)
    /\ chunk_idx = 1
    /\ i = CHUNK_SIZE - 1
    /\ savedata # LastEntry

----------------------------------------------------------------------------
(* C11 *)

\* the bytes write_piibox may write for a roster of n records
BoxBytes(n) == PIIBOX_SAVEDATA_OFFSET..(RecordAt(n) - 1)

\* C11: write_piibox(buffer, R) with |R| = N whose count and records fit in
\* the buffer returns; the buffer keeps its length; every byte before the
\* PiiBox offset and every byte at or after offset + 2 + SIZEOF_SDPPD * N
\* has the value the call found there; and the two bytes at the offset are
\* N in big-endian.
C11_WriteFrame ==
    ( /\ entry # <<>>
      /\ Len(entry) <= Len(Program)
      /\ Program[Len(entry)] = "write_piibox"
      /\ Fits(LastEntry, roster_in) )
    => /\ failure = "none"
       /\ Len(done) = Len(entry)
       /\ DOMAIN savedata = DOMAIN LastEntry
       /\ \A c \in DOMAIN savedata \ BoxBytes(Len(roster_in)) :
             savedata[c] = LastEntry[c]
       /\ savedata[PIIBOX_SAVEDATA_OFFSET] = Len(roster_in) \div 256
       /\ savedata[PIIBOX_SAVEDATA_OFFSET + 1] = Len(roster_in) % 256

\* C11 witness: a roster of one record has been written over a box of two
\* well-formed records in a buffer of SAVEDATA_SIZE bytes; the first record
\* changed, and the bytes of the second, not all zero, are still there
\* behind the new data.
C11_Witness ==
    /\ done = <<"write_piibox">>
    /\ RightSize(entry[1])
    /\ Len(roster_in) = 1
    /\ BoxCount(entry[1]) = 2
    /\ Len(extract_piibox(entry[1]).pii_box) = 2
    /\ BoxCount(savedata) = 1
    /\ \E c \in RecordAt(0)..(RecordAt(1) - 1) : savedata[c] # entry[1][c]
    /\ \A c \in RecordAt(1)..(RecordAt(2) - 1) : savedata[c] = entry[1][c]
    /\ \E c \in RecordAt(1)..(RecordAt(2) - 1) : savedata[c] # 0

====
